---- MODULE Spec2Model ----
(***************************************************************************)
(* A model of the directed graph of server/digraph.py (Digraph, is_path,   *)
(* random_graph, shortest_path, compress) and of the least-cost search of  *)
(* server/dijkstra.py (least_cost_path).                                   *)
(*                                                                         *)
(* Python sequences are indexed from 0; TLA+ sequences from 1.  Loop       *)
(* indices keep their Python value, so walk[i] of the source is walk[i+1]  *)
(* here.  An edge (v, w) is the tuple <<v, w>>: e[0] is e[1], e[1] is e[2]. *)
(***************************************************************************)
EXTENDS Integers, Sequences, FiniteSets, TLC

(* ------------------------------ bounds -------------------------------- *)

\* vertices are the integers 0 .. NumVerts-1
NumVerts == 3
\* a graph is grown to at most MaxEdges edges
MaxEdges == 4
\* the constructor is given at most MaxCtorEdges edges
MaxCtorEdges == 2
\* vertex sequences handed to is_path and compress have at most MaxLen entries
MaxLen == 4
\* an edge costs 0 .. MaxCost
MaxCost == 2
\* random_graph is asked for 0 .. MaxM edges
MaxM == 7

Verts == 0 .. (NumVerts - 1)
Edges == Verts \X Verts

SeqsUpTo(S, n) == UNION { [1..k -> S] : k \in 0..n }

VARIABLES
    tosets,     \* Digraph._tosets:   vertex -> set of out-neighbours
    fromsets,   \* Digraph._fromsets: vertex -> set of in-neighbours
    call,       \* the operation called last (or running), with its arguments
    ret,        \* what that operation returned or raised
    pc,         \* "idle", or the loop the running operation is in
    queue,      \* shortest_path: FIFO of partial paths
    expanded,   \* shortest_path: how often the for loop has run over each
                \* vertex's neighbours in this call (history, not in the code)
    visited,    \* shortest_path / least_cost_path: vertices seen
    todo,       \* least_cost_path: vertex -> tentative cost
    parent      \* least_cost_path: vertex -> predecessor

vars == <<tosets, fromsets, call, ret, pc, queue, expanded, visited, todo, parent>>

(* ------------------------- values and results -------------------------- *)

\* an empty dict
EmptyDict == [x \in {} |-> {}]

\* d[k] = x on a dict
Put(d, k, x) == [y \in DOMAIN d \cup {k} |-> IF y = k THEN x ELSE d[y]]

\* a normal return of x
Value(x) == [kind |-> "value", value |-> x]
\* a return of None (also falling off the end of a function)
None == [kind |-> "None"]
\* dict[key] with key absent
KeyError == [kind |-> "KeyError"]

Last(s) == s[Len(s)]

\* the locals of the searches, when no search is running
NoLocals ==
    /\ queue = <<>>
    /\ expanded = EmptyDict
    /\ visited = {}
    /\ todo = EmptyDict
    /\ parent = EmptyDict

(* ------------------------------ Digraph -------------------------------- *)

\* the graph object held in the state
Graph == [tosets |-> tosets, fromsets |-> fromsets]

EmptyGraph == [tosets |-> EmptyDict, fromsets |-> EmptyDict]

\* Digraph.add_vertex
add_vertex(G, v) ==
    IF v \notin DOMAIN G.tosets
    THEN [tosets |-> Put(G.tosets, v, {}), fromsets |-> Put(G.fromsets, v, {})]
    ELSE G

\* a slip in add_edge: the source is recorded under itself, not under the target
add_edge_wrong_key(G, e) ==
    LET G2 == add_vertex(add_vertex(G, e[1]), e[2])
    IN  [tosets   |-> Put(G2.tosets, e[1], G2.tosets[e[1]] \cup {e[2]}),
         fromsets |-> Put(G2.fromsets, e[1], G2.fromsets[e[1]] \cup {e[1]})]

\* Digraph.add_edge
add_edge(G, e) ==
    LET G2 == add_vertex(add_vertex(G, e[1]), e[2])
    IN  [tosets   |-> Put(G2.tosets, e[1], G2.tosets[e[1]] \cup {e[2]}),
         fromsets |-> Put(G2.fromsets, e[2], G2.fromsets[e[2]] \cup {e[1]})]

\* Digraph.__init__: add_edge for each edge of the list, in order
RECURSIVE Digraph(_)
Digraph(edges) ==
    IF edges = <<>>
    THEN EmptyGraph
    ELSE add_edge(Digraph(SubSeq(edges, 1, Len(edges) - 1)), Last(edges))

\* Digraph.edges
edges_of(G) == { e \in Edges : e[1] \in DOMAIN G.tosets /\ e[2] \in G.tosets[e[1]] }

\* Digraph.vertices
vertices(G) == DOMAIN G.tosets

\* Digraph.num_edges
RECURSIVE SumCard(_, _)
SumCard(d, keys) ==
    IF keys = {}
    THEN 0
    ELSE LET v == CHOOSE x \in keys : TRUE
         IN  Cardinality(d[v]) + SumCard(d, keys \ {v})

num_edges(G) == SumCard(G.tosets, DOMAIN G.tosets)

\* Digraph.num_vertices
num_vertices(G) == Cardinality(DOMAIN G.tosets)

\* Digraph.adj_to: self._tosets[v]
adj_to(G, v) == IF v \in DOMAIN G.tosets THEN Value(G.tosets[v]) ELSE KeyError

\* Digraph.adj_from: self._fromsets[v]
adj_from(G, v) == IF v \in DOMAIN G.fromsets THEN Value(G.fromsets[v]) ELSE KeyError

\* the while loop of Digraph.is_path, from index i
RECURSIVE is_path_loop(_, _, _)
is_path_loop(G, path, i) ==
    IF i < Len(path) - 1
    THEN LET adj == adj_to(G, path[i + 1])
         IN  IF adj.kind = "KeyError"
             THEN KeyError
             ELSE IF path[i + 2] \notin adj.value
                  THEN Value(FALSE)
                  ELSE is_path_loop(G, path, i + 1)
    ELSE Value(TRUE)

\* Digraph.is_path
is_path(G, path) ==
    IF Len(path) = 0
    THEN Value(FALSE)
    ELSE IF Len(path) = 1 /\ path[1] \in vertices(G)
         THEN Value(TRUE)
         ELSE IF Len(path) = 1 /\ path[1] \notin vertices(G)
              THEN Value(FALSE)
              ELSE is_path_loop(G, path, 0)

(* ------------------------------ compress ------------------------------- *)

\* a slip in the first loop of compress: positions counted from 1
RECURSIVE lasttime_from_one(_, _, _)
lasttime_from_one(walk, i, lt) ==
    IF i < Len(walk)
    THEN lasttime_from_one(walk, i + 1, Put(lt, walk[i + 1], i + 1))
    ELSE lt

\* the first loop of compress: lasttime[v] = i for (i, v) in enumerate(walk)
RECURSIVE lasttime_loop(_, _, _)
lasttime_loop(walk, i, lt) ==
    IF i < Len(walk)
    THEN lasttime_loop(walk, i + 1, Put(lt, walk[i + 1], i))
    ELSE lt

\* a slip in the second loop of compress: the index moves on by one
RECURSIVE compress_no_jump(_, _, _, _)
compress_no_jump(walk, lt, i, rv) ==
    IF i < Len(walk)
    THEN compress_no_jump(walk, lt, i + 1, Append(rv, walk[i + 1]))
    ELSE rv

\* the second loop of compress
RECURSIVE compress_loop(_, _, _, _)
compress_loop(walk, lt, i, rv) ==
    IF i < Len(walk)
    THEN compress_loop(walk, lt, lt[walk[i + 1]] + 1, Append(rv, walk[i + 1]))
    ELSE rv

\* compress
compress(walk) == compress_loop(walk, lasttime_loop(walk, 0, EmptyDict), 0, <<>>)

(* ------------------------------ actions -------------------------------- *)

\* no operation has been called, or its result has been taken
NoCall == [op |-> "none"]
\* the operation has not returned yet
Running == [kind |-> "running"]

\* G = Digraph(edges)
Construct(edges) ==
    /\ tosets = Digraph(edges).tosets
    /\ fromsets = Digraph(edges).fromsets
    /\ call = [op |-> "Digraph", edges |-> edges]
    /\ ret = None
    /\ pc = "done"
    /\ NoLocals

\* G = Digraph(edges) for any list of edges
Init == \E edges \in SeqsUpTo(Edges, MaxCtorEdges) : Construct(edges)

\* G = Digraph()
InitEmpty == Construct(<<>>)

\* the caller takes the result and goes on
Return ==
    /\ pc = "done"
    /\ pc' = "idle"
    /\ call' = NoCall
    /\ ret' = None
    /\ UNCHANGED <<tosets, fromsets, queue, expanded, visited, todo, parent>>

\* G.add_vertex(v)
AddVertex(v) ==
    /\ pc = "idle"
    /\ tosets' = add_vertex(Graph, v).tosets
    /\ fromsets' = add_vertex(Graph, v).fromsets
    /\ call' = [op |-> "add_vertex", v |-> v]
    /\ ret' = None
    /\ pc' = "done"
    /\ UNCHANGED <<queue, expanded, visited, todo, parent>>

\* G.add_edge(e)
AddEdge(e) ==
    /\ pc = "idle"
    /\ num_edges(add_edge(Graph, e)) <= MaxEdges
    /\ tosets' = add_edge(Graph, e).tosets
    /\ fromsets' = add_edge(Graph, e).fromsets
    /\ call' = [op |-> "add_edge", e |-> e]
    /\ ret' = None
    /\ pc' = "done"
    /\ UNCHANGED <<queue, expanded, visited, todo, parent>>

\* a dict that creates the missing key on lookup
AdjToCreating(v) ==
    /\ pc = "idle"
    /\ tosets' = add_vertex(Graph, v).tosets
    /\ fromsets' = add_vertex(Graph, v).fromsets
    /\ call' = [op |-> "adj_to", v |-> v]
    /\ ret' = adj_to(add_vertex(Graph, v), v)
    /\ pc' = "done"
    /\ UNCHANGED <<queue, expanded, visited, todo, parent>>

\* G.adj_to(v)
AdjTo(v) ==
    /\ pc = "idle"
    /\ call' = [op |-> "adj_to", v |-> v]
    /\ ret' = adj_to(Graph, v)
    /\ pc' = "done"
    /\ UNCHANGED <<tosets, fromsets, queue, expanded, visited, todo, parent>>

\* G.adj_from(v)
AdjFrom(v) ==
    /\ pc = "idle"
    /\ call' = [op |-> "adj_from", v |-> v]
    /\ ret' = adj_from(Graph, v)
    /\ pc' = "done"
    /\ UNCHANGED <<tosets, fromsets, queue, expanded, visited, todo, parent>>

\* G.is_path(path)
IsPath(path) ==
    /\ pc = "idle"
    /\ call' = [op |-> "is_path", path |-> path]
    /\ ret' = is_path(Graph, path)
    /\ pc' = "done"
    /\ UNCHANGED <<tosets, fromsets, queue, expanded, visited, todo, parent>>

\* compress(walk)
Compress(walk) ==
    /\ pc = "idle"
    /\ call' = [op |-> "compress", walk |-> walk]
    /\ ret' = Value(compress(walk))
    /\ pc' = "done"
    /\ UNCHANGED <<tosets, fromsets, queue, expanded, visited, todo, parent>>

\* the sequences of k vertices whose consecutive pairs are all edges of G
RECURSIVE WalksOfLen(_, _)
WalksOfLen(G, k) ==
    IF k = 0
    THEN { <<>> }
    ELSE IF k = 1
         THEN { <<v>> : v \in Verts }
         ELSE UNION { { Append(w, x) : x \in IF Last(w) \in DOMAIN G.tosets
                                              THEN G.tosets[Last(w)]
                                              ELSE {} } :
                      w \in WalksOfLen(G, k - 1) }

\* the vertex sequences whose consecutive pairs are all edges of G
WalksOf(G) == UNION { WalksOfLen(G, k) : k \in 0 .. MaxLen }

(* ---------------------------- shortest_path ---------------------------- *)

\* every order in which a for loop may visit the set S
Orders(S) ==
    { f \in [1 .. Cardinality(S) -> S] : \A x \in S : \E i \in DOMAIN f : f[i] = x }

\* queue.pop(0)
queue_pop(q) == [item |-> Head(q), rest |-> Tail(q)]

\* a slip: queue.append(new_path) is indented one level less, after the for
\* loop, so that only the last new path is queued
sp_for_dedent(order, k, path, q, vis) ==
    LET fresh == { i \in k .. Len(order) : order[i] \notin vis }
        last == CHOOSE i \in fresh : \A j \in fresh : j <= i
    IN  IF fresh = {}
        THEN [queue |-> q, visited |-> vis]
        ELSE [queue |-> Append(q, Append(path, order[last])),
              visited |-> vis \cup { order[i] : i \in fresh }]

\* the for loop of shortest_path over the neighbours in the given order, from
\* position k on; the result is the queue and the visited list after it
RECURSIVE sp_for(_, _, _, _, _)
sp_for(order, k, path, q, vis) ==
    IF k > Len(order)
    THEN [queue |-> q, visited |-> vis]
    ELSE IF order[k] \in vis
         THEN sp_for(order, k + 1, path, q, vis)
         ELSE sp_for(order, k + 1, path,
                     Append(q, Append(path, order[k])), vis \cup {order[k]})

\* a slip: no membership test before the search
sp_unguarded(G, source, dest) == TRUE

\* the test on source and dest before the loop
sp_guard(G, source, dest) == ~ (source \notin vertices(G) \/ dest \notin vertices(G))

\* how often vertex v is counted in the tally d
Times(d, v) == IF v \in DOMAIN d THEN d[v] ELSE 0

\* shortest_path(G, source, dest), up to the while loop
SpCall(source, dest) ==
    /\ pc = "idle"
    /\ call' = [op |-> "shortest_path", source |-> source, dest |-> dest]
    /\ IF sp_guard(Graph, source, dest)
       THEN /\ queue' = << <<source>> >>
            /\ expanded' = EmptyDict
            /\ visited' = {}
            /\ ret' = Running
            /\ pc' = "sp_while"
       ELSE /\ queue' = <<>>
            /\ expanded' = EmptyDict
            /\ visited' = {}
            /\ ret' = None
            /\ pc' = "done"
    /\ UNCHANGED <<tosets, fromsets, todo, parent>>

\* the queue is empty: the loop ends and the function returns None
SpExhausted ==
    /\ pc = "sp_while"
    /\ queue = <<>>
    /\ ret' = None
    /\ pc' = "done"
    /\ queue' = <<>>
    /\ expanded' = EmptyDict
    /\ visited' = {}
    /\ UNCHANGED <<tosets, fromsets, call, todo, parent>>

\* one pass of the while loop that finds dest at the end of the popped path
SpFound ==
    /\ pc = "sp_while"
    /\ queue # <<>>
    /\ Last(queue_pop(queue).item) = call.dest
    /\ ret' = Value(queue_pop(queue).item)
    /\ pc' = "done"
    /\ queue' = <<>>
    /\ expanded' = EmptyDict
    /\ visited' = {}
    /\ UNCHANGED <<tosets, fromsets, call, todo, parent>>

\* one pass of the while loop that extends the popped path by its neighbours
SpExpand ==
    /\ pc = "sp_while"
    /\ queue # <<>>
    /\ LET path == queue_pop(queue).item
           vertex == Last(path)
           adj == adj_to(Graph, vertex)
       IN  /\ vertex # call.dest
           /\ IF adj.kind = "KeyError"
              THEN /\ ret' = KeyError
                   /\ pc' = "done"
                   /\ queue' = <<>>
                   /\ expanded' = EmptyDict
                   /\ visited' = {}
              ELSE \E order \in Orders(adj.value) :
                     LET after == sp_for(order, 1, path, queue_pop(queue).rest, visited)
                     IN  /\ queue' = after.queue
                         /\ expanded' = Put(expanded, vertex, Times(expanded, vertex) + 1)
                         /\ visited' = after.visited
                         /\ ret' = Running
                         /\ pc' = "sp_while"
    /\ UNCHANGED <<tosets, fromsets, call, todo, parent>>

(* --------------------------- least_cost_path --------------------------- *)

\* the cost functions: a cost for every edge of G
CostFns(G) == [edges_of(G) -> 0 .. MaxCost]

\* d.pop(k)
Remove(d, k) == [y \in DOMAIN d \ {k} |-> d[y]]

\* min(todo.items(), key=cost): the vertices min may return, those of least cost
min_items(d) == { v \in DOMAIN d : \A u \in DOMAIN d : d[v] <= d[u] }

\* a slip: a neighbour already in todo is never given a lower cost
RECURSIVE relax_first_only(_, _, _, _, _, _, _)
relax_first_only(adj, cur, c, cost, vis, td, par) ==
    IF adj = {}
    THEN [todo |-> td, parent |-> par]
    ELSE LET n == CHOOSE x \in adj : TRUE
         IN  IF n \in vis
             THEN relax_first_only(adj \ {n}, cur, c, cost, vis, td, par)
             ELSE IF n \notin DOMAIN td
                  THEN relax_first_only(adj \ {n}, cur, c, cost, vis,
                                        Put(td, n, c + cost[<<cur, n>>]), Put(par, n, cur))
                  ELSE relax_first_only(adj \ {n}, cur, c, cost, vis, td, par)

\* the for loop of least_cost_path over the neighbours adj of cur; each
\* neighbour is handled on its own, so the order of the loop does not matter
RECURSIVE relax(_, _, _, _, _, _, _)
relax(adj, cur, c, cost, vis, td, par) ==
    IF adj = {}
    THEN [todo |-> td, parent |-> par]
    ELSE LET n == CHOOSE x \in adj : TRUE
         IN  IF n \in vis
             THEN relax(adj \ {n}, cur, c, cost, vis, td, par)
             ELSE IF n \notin DOMAIN td \/ c + cost[<<cur, n>>] < td[n]
                  THEN relax(adj \ {n}, cur, c, cost, vis,
                             Put(td, n, c + cost[<<cur, n>>]), Put(par, n, cur))
                  ELSE relax(adj \ {n}, cur, c, cost, vis, td, par)

Reverse(s) == [i \in 1 .. Len(s) |-> s[Len(s) + 1 - i]]

\* the loop that follows parent from dest back to start, then the reversal
RECURSIVE walk_back(_, _, _, _)
walk_back(par, start, vertex_iterator, path) ==
    IF vertex_iterator \notin DOMAIN par
    THEN KeyError
    ELSE IF par[vertex_iterator] # start
         THEN walk_back(par, start, par[vertex_iterator],
                        Append(path, par[vertex_iterator]))
         ELSE Value(Reverse(Append(path, start)))

\* least_cost_path(G, start, dest, cost), up to the while loop
LcpCall(start, dest, cost) ==
    /\ pc = "idle"
    /\ call' = [op |-> "least_cost_path", start |-> start, dest |-> dest, cost |-> cost]
    /\ IF start = dest /\ start \notin vertices(Graph)
       THEN /\ todo' = EmptyDict
            /\ ret' = Value(<<>>)
            /\ pc' = "done"
       ELSE /\ todo' = Put(EmptyDict, start, 0)
            /\ ret' = Running
            /\ pc' = "lcp_while"
    /\ visited' = {}
    /\ parent' = EmptyDict
    /\ UNCHANGED <<tosets, fromsets, queue, expanded>>

\* one pass of the while loop
LcpWhile ==
    /\ pc = "lcp_while"
    /\ DOMAIN todo # {} /\ call.dest \notin visited
    /\ \E cur \in min_items(todo) :
         LET c == todo[cur]
             adj == adj_to(Graph, cur)
         IN  IF adj.kind = "KeyError"
             THEN /\ ret' = KeyError
                  /\ pc' = "done"
                  /\ todo' = EmptyDict
                  /\ visited' = {}
                  /\ parent' = EmptyDict
             ELSE LET after == relax(adj.value, cur, c, call.cost,
                                     visited \cup {cur}, Remove(todo, cur), parent)
                  IN  /\ todo' = after.todo
                      /\ parent' = after.parent
                      /\ visited' = visited \cup {cur}
                      /\ ret' = Running
                      /\ pc' = "lcp_while"
    /\ UNCHANGED <<tosets, fromsets, call, queue, expanded>>

\* after the while loop: the path is extracted and returned
LcpExtract ==
    /\ pc = "lcp_while"
    /\ ~ (DOMAIN todo # {} /\ call.dest \notin visited)
    /\ ret' = IF call.start = call.dest /\ call.start \in vertices(Graph)
              THEN Value(<<call.start>>)
              ELSE IF call.dest \in visited
                   THEN walk_back(parent, call.start, call.dest, <<call.dest>>)
                   ELSE Value(<<>>)
    /\ pc' = "done"
    /\ todo' = EmptyDict
    /\ visited' = {}
    /\ parent' = EmptyDict
    /\ UNCHANGED <<tosets, fromsets, call, queue, expanded>>

(* ----------------------------- random_graph ---------------------------- *)

\* for v in range(n): G.add_vertex(v), from v on
RECURSIVE add_range(_, _, _)
add_range(G, v, n) == IF v < n THEN add_range(add_vertex(G, v), v + 1, n) ELSE G

\* max_num_edges
max_num_edges(n) == n * (n - 1)

\* a slip: the two ends are drawn independently
pairs_with_repeats(n) == (0 .. (n - 1)) \X (0 .. (n - 1))

\* random.sample(range(n), 2): the pairs it may return
sample2(n) == { e \in (0 .. (n - 1)) \X (0 .. (n - 1)) : e[1] # e[2] }

ValueError(n, m, max) == [kind |-> "ValueError", n |-> n, m |-> m, max |-> max]
\* random.sample on a population smaller than the sample
SampleError == [kind |-> "ValueError", n |-> -1, m |-> -1, max |-> -1]

\* random_graph(n, m), up to the while loop
RgCall(n, m) ==
    /\ pc = "idle"
    /\ call' = [op |-> "random_graph", n |-> n, m |-> m]
    /\ tosets' = add_range(EmptyGraph, 0, n).tosets
    /\ fromsets' = add_range(EmptyGraph, 0, n).fromsets
    /\ IF m > max_num_edges(n)
       THEN /\ ret' = ValueError(n, m, max_num_edges(n))
            /\ pc' = "done"
       ELSE /\ ret' = Running
            /\ pc' = "rg_while"
    /\ UNCHANGED <<queue, expanded, visited, todo, parent>>

\* one pass of the while loop: an edge is sampled and added
RgSample ==
    /\ pc = "rg_while"
    /\ num_edges(Graph) < call.m
    /\ IF call.n < 2
       THEN /\ ret' = SampleError
            /\ pc' = "done"
            /\ UNCHANGED <<tosets, fromsets>>
       ELSE \E e \in sample2(call.n) :
              /\ tosets' = add_edge(Graph, e).tosets
              /\ fromsets' = add_edge(Graph, e).fromsets
              /\ ret' = Running
              /\ pc' = "rg_while"
    /\ UNCHANGED <<call, queue, expanded, visited, todo, parent>>

\* the while loop ends: return G
RgReturn ==
    /\ pc = "rg_while"
    /\ ~ (num_edges(Graph) < call.m)
    /\ ret' = Value(Graph)
    /\ pc' = "done"
    /\ UNCHANGED <<tosets, fromsets, call, queue, expanded, visited, todo, parent>>

(* --------------------------- specifications ---------------------------- *)

\* a graph under construction, its neighbour queries, and compress on its walks
Next ==
    \/ Return
    \/ \E v \in Verts : AddVertex(v)
    \/ \E e \in Edges : AddEdge(e)
    \/ \E v \in Verts : AdjTo(v)
    \/ \E v \in Verts : AdjFrom(v)
    \/ \E walk \in WalksOf(Graph) : Compress(walk)

Spec == Init /\ [][Next]_vars

\* a graph under construction and is_path on any vertex sequence
NextIsPath ==
    \/ Return
    \/ \E v \in Verts : AddVertex(v)
    \/ \E e \in Edges : AddEdge(e)
    \/ \E path \in SeqsUpTo(Verts, MaxLen) : IsPath(path)

SpecIsPath == Init /\ [][NextIsPath]_vars

\* compress on any vertex sequence
NextCompress ==
    \/ Return
    \/ \E walk \in SeqsUpTo(Verts, MaxLen) : Compress(walk)

SpecCompress == InitEmpty /\ [][NextCompress]_vars

\* a graph under construction and shortest_path between any two vertices
NextBfs ==
    \/ Return
    \/ \E v \in Verts : AddVertex(v)
    \/ \E e \in Edges : AddEdge(e)
    \/ \E source \in Verts, dest \in Verts : SpCall(source, dest)
    \/ SpExhausted
    \/ SpFound
    \/ SpExpand

SpecBfs == Init /\ [][NextBfs]_vars

\* a graph under construction and least_cost_path between any two vertices
NextLcp ==
    \/ Return
    \/ \E v \in Verts : AddVertex(v)
    \/ \E e \in Edges : AddEdge(e)
    \/ \E start \in Verts, dest \in Verts :
          \E cost \in CostFns(Graph) : LcpCall(start, dest, cost)
    \/ LcpWhile
    \/ LcpExtract

SpecLcp == Init /\ [][NextLcp]_vars

\* random_graph for any n and m
NextRandom ==
    \/ Return
    \/ \E n \in 0 .. NumVerts, m \in 0 .. MaxM : RgCall(n, m)
    \/ RgSample
    \/ RgReturn

SpecRandom == InitEmpty /\ [][NextRandom]_vars

(* ------------------------- notions of the claims ------------------------ *)

\* (v, w) is a forward edge of G
HasEdge(G, v, w) == v \in DOMAIN G.tosets /\ w \in G.tosets[v]

\* every consecutive pair of p is a forward edge of G
Connected(G, p) == \A i \in 1 .. (Len(p) - 1) : HasEdge(G, p[i], p[i + 1])

\* the paths of G from s to d with at most NumVerts + 1 vertices: every simple
\* path, and walks that repeat a vertex
PathsBetween(G, s, d) ==
    { p \in SeqsUpTo(DOMAIN G.tosets, NumVerts + 1) :
        /\ Len(p) >= 1
        /\ p[1] = s
        /\ Last(p) = d
        /\ Connected(G, p) }

\* the summed edge cost of p
RECURSIVE PathCost(_, _)
PathCost(cost, p) ==
    IF Len(p) <= 1
    THEN 0
    ELSE cost[<<p[1], p[2]>>] + PathCost(cost, Tail(p))

NoDuplicates(s) == \A i, j \in 1 .. Len(s) : s[i] = s[j] => i = j

\* r is s with some entries left out
RECURSIVE IsSubseq(_, _)
IsSubseq(r, s) ==
    IF r = <<>>
    THEN TRUE
    ELSE IF s = <<>>
         THEN FALSE
         ELSE IF Head(r) = Head(s)
              THEN IsSubseq(Tail(r), Tail(s))
              ELSE IsSubseq(r, Tail(s))

\* what is_path is said to answer
IsPathStated(G, p) ==
    IF Len(p) = 0
    THEN FALSE
    ELSE IF Len(p) = 1
         THEN p[1] \in DOMAIN G.tosets
         ELSE /\ \A i \in 1 .. Len(p) : p[i] \in DOMAIN G.tosets
              /\ Connected(G, p)

Returned(op) == pc = "done" /\ call.op = op

(* -------------------------------- claims ------------------------------- *)

\* C1: with start a vertex of G and non-negative edge costs, least_cost_path
\* returns the empty list exactly when dest is not reachable from start (also
\* when dest is no vertex of G); otherwise it returns a sequence that begins
\* with start, ends with dest, satisfies G.is_path and costs no more than any
\* other path from start to dest.
C1_LeastCostPath ==
    (Returned("least_cost_path") /\ call.start \in vertices(Graph)) =>
        LET P == PathsBetween(Graph, call.start, call.dest)
        IN  IF P = {}
            THEN ret = Value(<<>>)
            ELSE /\ ret.kind = "value"
                 /\ ret.value # <<>>
                 /\ Head(ret.value) = call.start
                 /\ Last(ret.value) = call.dest
                 /\ is_path(Graph, ret.value) = Value(TRUE)
                 /\ \A q \in P : PathCost(call.cost, ret.value) <= PathCost(call.cost, q)

\* a two-edge path was returned although a direct edge exists, which costs more
C1_Witness ==
    /\ Returned("least_cost_path")
    /\ call.start \in vertices(Graph)
    /\ ret.kind = "value"
    /\ Len(ret.value) = 3
    /\ HasEdge(Graph, call.start, call.dest)
    /\ PathCost(call.cost, ret.value) < call.cost[<<call.start, call.dest>>]

\* C2: with source and dest vertices of G, shortest_path returns no path
\* exactly when dest is not reachable from source; otherwise it returns a
\* sequence that begins with source, ends with dest, satisfies G.is_path and
\* has the fewest edges among all paths from source to dest.
C2_ShortestPath ==
    (/\ Returned("shortest_path")
     /\ call.source \in vertices(Graph)
     /\ call.dest \in vertices(Graph)) =>
        LET P == PathsBetween(Graph, call.source, call.dest)
        IN  IF P = {}
            THEN ret = None
            ELSE /\ ret.kind = "value"
                 /\ ret.value # <<>>
                 /\ Head(ret.value) = call.source
                 /\ Last(ret.value) = call.dest
                 /\ is_path(Graph, ret.value) = Value(TRUE)
                 /\ \A q \in P : Len(ret.value) <= Len(q)

\* the direct edge was returned although a two-edge path exists as well
C2_Witness ==
    /\ Returned("shortest_path")
    /\ ret.kind = "value"
    /\ Len(ret.value) = 2
    /\ \E q \in PathsBetween(Graph, call.source, call.dest) :
          Len(q) = 3 /\ NoDuplicates(q)

\* C3: when source is no vertex of G and differs from dest, least_cost_path
\* completes normally and returns the empty list; it raises no lookup error.
C3_NonMemberStart ==
    (/\ Returned("least_cost_path")
     /\ call.start \notin vertices(Graph)
     /\ call.start # call.dest) => ret = Value(<<>>)

\* C4: is_path always returns a boolean and never raises: False for the empty
\* sequence; for one vertex, True iff it is in G; for two or more, True iff
\* every vertex is in G and every consecutive pair is a forward edge.
C4_IsPath ==
    Returned("is_path") => ret = Value(IsPathStated(Graph, call.path))

\* C5: if source or dest is no vertex of G, shortest_path returns None without
\* raising, whether or not source equals dest; and for a vertex s of G,
\* shortest_path(G, s, s) returns [s].
C5_ShortestPathEnds ==
    Returned("shortest_path") =>
        /\ (call.source \notin vertices(Graph) \/ call.dest \notin vertices(Graph))
             => ret = None
        /\ (call.source \in vertices(Graph) /\ call.source = call.dest)
             => ret = Value(<<call.source>>)

\* source equals dest, and is no vertex of a graph that has vertices
C5_Witness ==
    /\ Returned("shortest_path")
    /\ call.source = call.dest
    /\ call.source \notin vertices(Graph)
    /\ vertices(Graph) # {}
    /\ ret = None

\* the two mappings have the same keys, hold only keys, and mirror each other
GraphInv ==
    /\ DOMAIN tosets = DOMAIN fromsets
    /\ \A v \in DOMAIN tosets : tosets[v] \subseteq DOMAIN tosets
    /\ \A v \in DOMAIN fromsets : fromsets[v] \subseteq DOMAIN tosets
    /\ \A v \in Verts, w \in Verts :
          (v \in DOMAIN tosets /\ w \in tosets[v])
              <=> (w \in DOMAIN fromsets /\ v \in fromsets[w])

\* add_vertex of a vertex that is there, or add_edge of an edge that is there,
\* changes neither mapping
ReAddUnchanged ==
    /\ (pc = "idle" /\ call'.op = "add_vertex" /\ call'.v \in DOMAIN tosets)
          => (tosets' = tosets /\ fromsets' = fromsets)
    /\ (pc = "idle" /\ call'.op = "add_edge" /\ HasEdge(Graph, call'.e[1], call'.e[2]))
          => (tosets' = tosets /\ fromsets' = fromsets)

\* C6: after any sequence of add_vertex and add_edge calls, from the empty
\* graph or the constructor's edge list, the forward and backward mappings have
\* the same key set, every neighbour is a key, and w is in forward[v] iff v is
\* in backward[w]; re-adding a vertex or an edge changes neither mapping.
C6_Lockstep == [] GraphInv /\ [][ReAddUnchanged]_vars

\* an edge was added to a graph that has a self-loop and another edge
C6_Witness ==
    /\ Returned("add_edge")
    /\ call.e[1] # call.e[2]
    /\ num_edges(Graph) = 3
    /\ \E v \in vertices(Graph) : HasEdge(Graph, v, v)
    /\ num_vertices(Graph) = 3

\* C7: compress(w) terminates (the index of its loop grows in every pass and
\* stays within the walk), its output has no vertex twice, is a subsequence of
\* w no longer than w, and compress of it is itself.
C7_Compress ==
    Returned("compress") =>
        LET w == call.walk
            r == ret.value
            lt == lasttime_loop(w, 0, EmptyDict)
        IN  /\ \A i \in 0 .. (Len(w) - 1) :
                  lt[w[i + 1]] + 1 > i /\ lt[w[i + 1]] + 1 <= Len(w)
            /\ NoDuplicates(r)
            /\ IsSubseq(r, w)
            /\ Len(r) <= Len(w)
            /\ compress(r) = r

\* a walk of four vertices with repeats was cut down to two
C7_Witness ==
    /\ Returned("compress")
    /\ Len(call.walk) = 4
    /\ ~ NoDuplicates(call.walk)
    /\ Len(ret.value) = 2

\* C8 as stated: for a non-empty walk w whose consecutive pairs are forward
\* edges of G, compress(w) begins with the first and ends with the last vertex
\* of w and its consecutive pairs are forward edges of G, so that
\* G.is_path(compress(w)) is True.
C8_AsStated ==
    (Returned("compress") /\ call.walk # <<>> /\ Connected(Graph, call.walk)) =>
        /\ Head(ret.value) = Head(call.walk)
        /\ Last(ret.value) = Last(call.walk)
        /\ Connected(Graph, ret.value)
        /\ is_path(Graph, ret.value) = Value(TRUE)

\* C8, amended: for a non-empty walk w whose consecutive pairs are forward
\* edges of G, compress(w) begins with the first and ends with the last vertex
\* of w and its consecutive pairs are forward edges of G; G.is_path(compress(w))
\* is True when the vertices of w are vertices of G, and False for the walk of
\* one vertex that is not in G.
C8_CompressWalk ==
    (Returned("compress") /\ call.walk # <<>> /\ Connected(Graph, call.walk)) =>
        /\ Head(ret.value) = Head(call.walk)
        /\ Last(ret.value) = Last(call.walk)
        /\ Connected(Graph, ret.value)
        /\ is_path(Graph, ret.value) =
              Value(\A i \in 1 .. Len(call.walk) : call.walk[i] \in vertices(Graph))

\* a walk of G that comes back to a vertex was cut down to a path of one edge
C8_Witness ==
    /\ Returned("compress")
    /\ Len(call.walk) = 4
    /\ Connected(Graph, call.walk)
    /\ ~ NoDuplicates(call.walk)
    /\ Len(ret.value) = 2
    /\ is_path(Graph, ret.value) = Value(TRUE)

\* what random_graph(n, m) has returned or raised
RandomGraphResult ==
    Returned("random_graph") =>
        IF call.m <= call.n * (call.n - 1)
        THEN ret.kind = "value" =>
                /\ ret.value = Graph
                /\ vertices(Graph) = 0 .. (call.n - 1)
                /\ num_edges(Graph) = call.m
                /\ Cardinality(edges_of(Graph)) = call.m
                /\ \A v \in vertices(Graph) : ~ HasEdge(Graph, v, v)
        ELSE /\ ret = ValueError(call.n, call.m, call.n * (call.n - 1))
             /\ edges_of(Graph) = {}

\* the error is raised by the call itself, never from the sampling loop
RaisedBeforeSampling ==
    (pc' = "done" /\ call'.op = "random_graph"
        /\ call'.m > call'.n * (call'.n - 1)) => pc # "rg_while"

\* C9: for 0 <= m <= n*(n-1), whenever random_graph(n, m) returns, whatever
\* was sampled, the result has exactly the vertices 0..n-1, exactly m edges and
\* no self-loop; for m > n*(n-1) it raises the ValueError that reports n, m and
\* n*(n-1), and samples no edge.
C9_RandomGraph == [] RandomGraphResult /\ [][RaisedBeforeSampling]_vars

\* a graph of three vertices and four sampled edges was returned
C9_Witness ==
    /\ Returned("random_graph")
    /\ ret.kind = "value"
    /\ call.n = 3
    /\ call.m = 4
    /\ num_edges(Graph) = 4

\* a neighbour query changes neither mapping; it raises KeyError for a vertex
\* that is no key, and returns the vertex's set otherwise
QueryContract ==
    /\ (pc = "idle" /\ call'.op = "adj_to") =>
          /\ tosets' = tosets /\ fromsets' = fromsets
          /\ ret' = IF call'.v \in DOMAIN tosets THEN Value(tosets[call'.v]) ELSE KeyError
          /\ ret' = KeyError => call'.v \notin DOMAIN tosets' \cup DOMAIN fromsets'
    /\ (pc = "idle" /\ call'.op = "adj_from") =>
          /\ tosets' = tosets /\ fromsets' = fromsets
          /\ ret' = IF call'.v \in DOMAIN fromsets THEN Value(fromsets[call'.v]) ELSE KeyError
          /\ ret' = KeyError => call'.v \notin DOMAIN tosets' \cup DOMAIN fromsets'

\* C10: for a vertex v that was never added, adj_to(v) and adj_from(v) fail
\* with a lookup error and leave both mappings unchanged, so v is no vertex
\* afterwards; for a vertex that was added they return forward[v] and
\* backward[v].  (Nothing removes a key, so "never added" is "not a key".)
C10_NeighbourQueries == [][QueryContract]_vars

\* adj_to raised for a vertex that is absent from a graph with edges
C10_Witness ==
    /\ Returned("adj_to")
    /\ ret = KeyError
    /\ call.v \notin vertices(Graph)
    /\ num_edges(Graph) >= 1

\* C11: in every run of shortest_path with source and dest vertices of G, each
\* vertex, the source included, is expanded at most once: at most one popped
\* path that ends in it has its out-neighbours iterated.
C11_ExpandedOnce ==
    (/\ pc = "sp_while"
     /\ call.source \in vertices(Graph)
     /\ call.dest \in vertices(Graph)) =>
        \A v \in Verts : Times(expanded, v) <= 1

\* a least cost of a path of G from s to v is c
IsLeastCost(G, cost, s, v, c) ==
    LET P == PathsBetween(G, s, v)
    IN  /\ \E p \in P : PathCost(cost, p) = c
        /\ \A q \in P : c <= PathCost(cost, q)

\* least_cost_path is in its main loop, called with a start that is in G
LcpRunning == pc = "lcp_while" /\ call.start \in vertices(Graph)

\* no vertex is both visited and in todo
VisitedNotInTodo == LcpRunning => visited \cap DOMAIN todo = {}

\* a pass of the main loop extracts a vertex at its least cost from start, and
\* gives no visited vertex a new tentative cost or a new parent
ExtractedAtLeastCost ==
    (LcpRunning /\ pc' = "lcp_while" /\ visited' # visited) =>
        /\ \A cur \in visited' \ visited :
              /\ cur \in DOMAIN todo
              /\ IsLeastCost(Graph, call.cost, call.start, cur, todo[cur])
        /\ \A v \in visited :
              /\ v \in visited'
              /\ v \notin DOMAIN todo'
              /\ (v \in DOMAIN parent') = (v \in DOMAIN parent)
              /\ v \in DOMAIN parent => parent'[v] = parent[v]

\* C12: in every run of least_cost_path with start a vertex of G and
\* non-negative edge costs, at every pass of the main loop the visited set and
\* the todo map are disjoint (a visited vertex is never inserted or relaxed
\* again), and the tentative cost with which a vertex is extracted into visited
\* is the least total cost of any path from start to it.
C12_LeastCostLoop == [] VisitedNotInTodo /\ [][ExtractedAtLeastCost]_vars

\* a vertex with a direct edge from start was extracted through another vertex
C12_Witness ==
    /\ LcpRunning
    /\ \E v \in visited :
          /\ v # call.start
          /\ HasEdge(Graph, call.start, v)
          /\ v \in DOMAIN parent
          /\ parent[v] # call.start

====
